---- MODULE Spec2Model ----
(***************************************************************************)
(* Model of codewind/clistate.go: one CLIState, its readChannel actor      *)
(* loop, the producers calling OnFileChangeEvent and the runProjectCommand *)
(* workers the actor starts.  The channel is unbuffered: a send and the    *)
(* matching receive are one step, taken when the sender is blocked in its  *)
(* send and the actor is at its receive (line 98).                         *)
(***************************************************************************)
EXTENDS Integers, Sequences, FiniteSets, TLC

VARIABLES
    cliState,            \* what NewCLIState returned: "none" (not called yet), "actor", "error"
    installerPath,       \* CLIState.installerPath (installerPathParam before construction)
    projectPath,         \* CLIState.projectPath
    mockInstallerPath,   \* CLIState.mockInstallerPath
    readerStarted,       \* the goroutine readChannel has been started (line 65)
    processWaiting,      \* readChannel local, line 89
    processActive,       \* readChannel local, line 90
    lastTimestamp,       \* readChannel local, line 92
    debugMostRecentPtw,  \* readChannel local, line 94
    channelResult,       \* readChannel local, line 98: the entry last received
    producers,           \* each producer's position: "idle", or "send" when blocked at line 83
    workers,             \* the runProjectCommand goroutines started, in start order
    clock,               \* the wall clock as last read at line 224, in msecs
    crashed,             \* the process has died of a nil dereference (line 181)
    rejected,            \* number of OnFileChangeEvent calls that returned an error
    nEvents,             \* number of change events readChannel has processed
    nCompletions,        \* number of completion entries readChannel has processed
    eventsInFlight       \* change events processed since the last worker was started

vars == <<cliState, installerPath, projectPath, mockInstallerPath, readerStarted,
          processWaiting, processActive, lastTimestamp, debugMostRecentPtw,
          channelResult, producers, workers, clock, crashed, rejected,
          nEvents, nCompletions, eventsInFlight>>

actorVars == <<processWaiting, processActive, lastTimestamp, debugMostRecentPtw,
               channelResult, workers, nEvents, nCompletions, eventsInFlight>>

configVars == <<cliState, installerPath, projectPath, mockInstallerPath, readerStarted>>

----------------------------------------------------------------------------
(* Bounds of the model *)

NumProducers == 2
MaxEvents == 3
MaxTimestamp == 2
MaxClock == 2

Producers == 1..NumProducers
Timestamps == 0..MaxTimestamp
ClockValues == 1..MaxClock

(* Paths are sequences of characters; " " is the only white space used. *)
PathValues == {<<>>, <<" ">>, <<"c">>}
MockEnvValues == {<<>>, <<" ">>, <<"m">>}

(* A *models.ProjectToWatch: the nil pointer or one of two snapshots. *)
NilPtw == "nil"
Ptws == {NilPtw, "ptw1", "ptw2"}

(* A *RunProjectReturn: <<>> is the nil pointer, <<r>> points to r. *)
NilReturn == <<>>

(* Exit codes of the command: err == nil gives 0; an ExitError gives the
   process's code, -1 when it was killed; any other error gives -1. *)
ExitCodes == {-1, 0, 1}

----------------------------------------------------------------------------
(* strings.TrimSpace on a sequence of characters *)

IsSpace(c) == c = " "

RECURSIVE TrimLeft(_)
TrimLeft(s) ==
    IF s = <<>> THEN <<>>
    ELSE IF IsSpace(Head(s)) THEN TrimLeft(Tail(s)) ELSE s

RECURSIVE TrimRight(_)
TrimRight(s) ==
    IF s = <<>> THEN <<>>
    ELSE IF IsSpace(s[Len(s)]) THEN TrimRight(SubSeq(s, 1, Len(s) - 1)) ELSE s

TrimSpace(s) == TrimRight(TrimLeft(s))

----------------------------------------------------------------------------
(* Channel entries *)

ChangeEntry(ts, ptw) ==
    [projectCreationTimeInAbsoluteMsecsParam |-> ts,
     runProjectReturn |-> NilReturn,
     debugPtw |-> ptw]

RunProjectReturn(code, spawn) == [errorCode |-> code, spawnTime |-> spawn]

CompletionEntry(code, spawn) ==
    [projectCreationTimeInAbsoluteMsecsParam |-> 0,
     runProjectReturn |-> <<RunProjectReturn(code, spawn)>>,
     debugPtw |-> NilPtw]

IsCompletion(entry) == entry.runProjectReturn # NilReturn

----------------------------------------------------------------------------
(* NewCLIState *)

InstallerPathRejected_NoCheck(path) == FALSE

(* line 52: the guard under which NewCLIState returns an error *)
InstallerPathRejected(path) == path = <<>>

Init ==
    /\ cliState = "none"
    /\ installerPath \in PathValues
    /\ projectPath \in PathValues
    /\ mockInstallerPath \in {TrimSpace(e) : e \in MockEnvValues}
    /\ readerStarted = FALSE
    /\ processWaiting = FALSE
    /\ processActive = FALSE
    /\ lastTimestamp = 0
    /\ debugMostRecentPtw = NilPtw
    /\ channelResult = ChangeEntry(0, NilPtw)
    /\ producers = [p \in Producers |-> "idle"]
    /\ workers = <<>>
    /\ clock = 1
    /\ crashed = FALSE
    /\ rejected = 0
    /\ nEvents = 0
    /\ nCompletions = 0
    /\ eventsInFlight = 0

NewCLIState ==
    /\ cliState = "none"
    /\ IF InstallerPathRejected(installerPath)
       THEN /\ cliState' = "error"
            /\ readerStarted' = FALSE
       ELSE /\ cliState' = "actor"
            /\ readerStarted' = TRUE
    /\ UNCHANGED <<installerPath, projectPath, mockInstallerPath>>
    /\ UNCHANGED <<actorVars, producers, clock, crashed, rejected>>

----------------------------------------------------------------------------
(* OnFileChangeEvent, up to its send *)

ProjectPathRejected_OnlyEmpty(path) == path = <<>>

(* line 76: the guard under which OnFileChangeEvent returns an error *)
ProjectPathRejected(path) == TrimSpace(path) = <<>>

(* Calls made so far: those received, those refused and those blocked. *)
Submitted == nEvents + rejected + Cardinality({p \in Producers : producers[p] = "send"})

(* lines 76-83.  The entry's fields are the caller's arguments; nothing reads
   them before the entry is received, so they are drawn in ReceiveChange. *)
OnFileChangeEvent(p) ==
    /\ ~crashed
    /\ cliState = "actor"
    /\ producers[p] = "idle"
    /\ Submitted < MaxEvents
    /\ IF ProjectPathRejected(projectPath)
       THEN /\ rejected' = rejected + 1
            /\ producers' = producers
       ELSE /\ rejected' = rejected
            /\ producers' = [producers EXCEPT ![p] = "send"]
    /\ UNCHANGED <<configVars, actorVars, clock, crashed>>

----------------------------------------------------------------------------
(* readChannel: one iteration of the loop on the entry it receives; ws is
   the list of workers once the sender's send has completed *)

NextTimestamp_NoBootstrap(entry, ts) ==
    IF IsCompletion(entry)
    THEN IF entry.runProjectReturn[1].errorCode = 0
         THEN entry.runProjectReturn[1].spawnTime
         ELSE ts
    ELSE ts

NextTimestamp_OnFailureToo(entry, ts) ==
    IF IsCompletion(entry)
    THEN entry.runProjectReturn[1].spawnTime
    ELSE IF entry.projectCreationTimeInAbsoluteMsecsParam # 0 /\ ts = 0
         THEN entry.projectCreationTimeInAbsoluteMsecsParam
         ELSE ts

NextTimestamp_AlwaysAdopt(entry, ts) ==
    IF IsCompletion(entry)
    THEN IF entry.runProjectReturn[1].errorCode = 0
         THEN entry.runProjectReturn[1].spawnTime
         ELSE ts
    ELSE IF entry.projectCreationTimeInAbsoluteMsecsParam # 0
         THEN entry.projectCreationTimeInAbsoluteMsecsParam
         ELSE ts

(* lines 100-120: lastTimestamp after the entry is handled *)
NextTimestamp(entry, ts) ==
    IF IsCompletion(entry)
    THEN IF entry.runProjectReturn[1].errorCode = 0
         THEN entry.runProjectReturn[1].spawnTime
         ELSE ts
    ELSE IF entry.projectCreationTimeInAbsoluteMsecsParam # 0 /\ ts = 0
         THEN entry.projectCreationTimeInAbsoluteMsecsParam
         ELSE ts

NextPtw_Overwrite(entry, ptw) ==
    IF ~IsCompletion(entry) THEN entry.debugPtw ELSE ptw

(* lines 122-124: debugMostRecentPtw after the entry is handled *)
NextPtw(entry, ptw) ==
    IF ~IsCompletion(entry) /\ entry.debugPtw # NilPtw THEN entry.debugPtw ELSE ptw

ActiveAfter_NotCleared(entry, active) == active

(* lines 102 and 90: processActive before the test of line 129 *)
ActiveAfter(entry, active) == IF IsCompletion(entry) THEN FALSE ELSE active

WaitingAfter_RetryOnFailure(entry, waiting) ==
    IF IsCompletion(entry)
    THEN waiting \/ entry.runProjectReturn[1].errorCode # 0
    ELSE TRUE

(* lines 126 and 89: processWaiting before the test of line 129 *)
WaitingAfter(entry, waiting) == IF IsCompletion(entry) THEN waiting ELSE TRUE

ShouldStart_IgnoreActive(active, waiting) == waiting

ShouldStart_RequiresActive(active, waiting) == active /\ waiting

(* line 129 *)
ShouldStart(active, waiting) == ~active /\ waiting

(* line 133: the goroutine started, at the top of runProjectCommand *)
NewWorker(timestamp, ptw) ==
    [pc |-> "args", timestamp |-> timestamp, debugPtw |-> ptw,
     spawnTime |-> 0, errorCode |-> 0]

(* A goroutine that has returned is gone, and its locals with it: of the last
   one started the model keeps the timestamp it was passed and its exit code,
   to compare it with its successor. *)
Returned(w, isLast) ==
    [pc |-> "done",
     timestamp |-> IF isLast THEN w.timestamp ELSE 0,
     debugPtw |-> NilPtw,
     spawnTime |-> 0,
     errorCode |-> IF isLast THEN w.errorCode ELSE 0]

Retire(ws) ==
    [i \in 1..Len(ws) |-> IF ws[i].pc = "done" THEN Returned(ws[i], i = Len(ws)) ELSE ws[i]]

WaitingOnStart_NotCleared == TRUE

(* line 131 *)
WaitingOnStart == FALSE

readChannel(entry, ws) ==
    LET ts == NextTimestamp(entry, lastTimestamp)
        ptw == NextPtw(entry, debugMostRecentPtw)
        active == ActiveAfter(entry, processActive)
        waiting == WaitingAfter(entry, processWaiting)
    IN  /\ channelResult' = entry
        /\ lastTimestamp' = ts
        /\ debugMostRecentPtw' = ptw
        /\ nEvents' = IF IsCompletion(entry) THEN nEvents ELSE nEvents + 1
        /\ nCompletions' = IF IsCompletion(entry) THEN nCompletions + 1 ELSE nCompletions
        /\ IF ShouldStart(active, waiting)
           THEN /\ processWaiting' = WaitingOnStart
                /\ processActive' = TRUE
                /\ workers' = Append(Retire(ws), NewWorker(ts, ptw))
                /\ eventsInFlight' = 0
           ELSE /\ processWaiting' = waiting
                /\ processActive' = active
                /\ workers' = ws
                /\ eventsInFlight' = IF IsCompletion(entry) THEN eventsInFlight
                                     ELSE eventsInFlight + 1

(* line 83 meets line 98: producer p's entry is received, and p returns nil *)
ReceiveChange(p, ts, ptw) ==
    /\ ~crashed
    /\ readerStarted
    /\ producers[p] = "send"
    /\ readChannel(ChangeEntry(ts, ptw), workers)
    /\ producers' = [producers EXCEPT ![p] = "idle"]
    /\ UNCHANGED <<configVars, clock, crashed, rejected>>

----------------------------------------------------------------------------
(* runProjectCommand *)

(* lines 156 and 181: in mock mode debugPtw is dereferenced unchecked *)
DerefPanics(mock, ptw) == mock # <<>> /\ ptw = NilPtw

(* lines 148-224: build the arguments and read the wall clock, which shows
   now; the clock is read nowhere else, and it never goes back *)
WorkerSpawn(i, now) ==
    /\ ~crashed
    /\ i \in 1..Len(workers)
    /\ workers[i].pc = "args"
    /\ now >= clock
    /\ IF DerefPanics(mockInstallerPath, workers[i].debugPtw)
       THEN /\ crashed' = TRUE
            /\ workers' = workers
            /\ clock' = clock
       ELSE /\ crashed' = FALSE
            /\ workers' = [workers EXCEPT ![i].pc = "exec", ![i].spawnTime = now]
            /\ clock' = now
    /\ UNCHANGED <<configVars, processWaiting, processActive, lastTimestamp,
                   debugMostRecentPtw, channelResult, nEvents, nCompletions,
                   eventsInFlight, producers, rejected>>

(* lines 226-263: the command ends and the result is built *)
WorkerExit(i, code) ==
    /\ ~crashed
    /\ i \in 1..Len(workers)
    /\ workers[i].pc = "exec"
    /\ workers' = [workers EXCEPT ![i].pc = "send", ![i].errorCode = code]
    /\ UNCHANGED <<configVars, processWaiting, processActive, lastTimestamp,
                   debugMostRecentPtw, channelResult, nEvents, nCompletions,
                   eventsInFlight, producers, clock, crashed, rejected>>

(* lines 252/265 meet line 98: worker i's result is received *)
ReceiveCompletion(i) ==
    /\ ~crashed
    /\ readerStarted
    /\ i \in 1..Len(workers)
    /\ workers[i].pc = "send"
    /\ readChannel(CompletionEntry(workers[i].errorCode, workers[i].spawnTime),
                   [workers EXCEPT ![i].pc = "done"])
    /\ UNCHANGED <<configVars, producers, clock, crashed, rejected>>

----------------------------------------------------------------------------

WorkerIds == 1..MaxEvents

Next ==
    \/ NewCLIState
    \/ \E p \in Producers : OnFileChangeEvent(p)
    \/ \E p \in Producers, ts \in Timestamps, ptw \in Ptws : ReceiveChange(p, ts, ptw)
    \/ \E i \in WorkerIds, now \in ClockValues : WorkerSpawn(i, now)
    \/ \E i \in WorkerIds, code \in ExitCodes : WorkerExit(i, code)
    \/ \E i \in WorkerIds : ReceiveCompletion(i)

Spec == Init /\ [][Next]_vars

(* The channel's blocked senders are served in turn, goroutines that can run
   do run, and every command started ends. *)
Fairness ==
    /\ \A p \in Producers : WF_vars(\E ts \in Timestamps, ptw \in Ptws : ReceiveChange(p, ts, ptw))
    /\ \A i \in WorkerIds : WF_vars(ReceiveCompletion(i))
    /\ \A i \in WorkerIds : WF_vars(\E now \in ClockValues : WorkerSpawn(i, now))
    /\ \A i \in WorkerIds : WF_vars(\E code \in ExitCodes : WorkerExit(i, code))

LiveSpec == Init /\ [][Next]_vars /\ Fairness

----------------------------------------------------------------------------
(* Vocabulary of the properties *)

(* The workers started and not yet received: active from line 133 until
   their entry is taken at line 98. *)
ActiveWorkers == {i \in 1..Len(workers) : workers[i].pc # "done"}

NumStarted == Len(workers)

(* Kinds of step, told from the counters that only readChannel moves. *)
EventStep == nEvents' # nEvents
CompletionStep == nCompletions' # nCompletions
StartStep == Len(workers') > Len(workers)

(* Fields of the entry handled by the step (channelResult', line 98). *)
HandledErrorCode == channelResult'.runProjectReturn[1].errorCode
HandledSpawnTime == channelResult'.runProjectReturn[1].spawnTime
HandledTimestamp == channelResult'.projectCreationTimeInAbsoluteMsecsParam

(* The worker started last before the step, and the one the step starts. *)
PrevWorker == workers[Len(workers)]
StartedWorker == workers'[Len(workers')]

PathIsBlank(path) == \A k \in 1..Len(path) : path[k] = " "

----------------------------------------------------------------------------
(* C1. Single-flight: in every reachable state at most one worker started by
   the actor is active, a worker being active from its start until the actor
   has received its completion entry. *)
C1_SingleFlight == Cardinality(ActiveWorkers) <= 1

(* A second invocation is in flight while a producer is blocked in its send. *)
C1_Witness ==
    /\ NumStarted >= 2
    /\ Cardinality(ActiveWorkers) = 1
    /\ \E p \in Producers : producers[p] = "send"

(* C2. Coalescing: a completion handled after N >= 1 change events were
   handled during the flight starts exactly one invocation and leaves nothing
   queued; and every start is of one invocation, in a step that handles a
   change event or a completion with such events behind it. *)
C2_Coalescing ==
    [][ /\ (CompletionStep /\ eventsInFlight >= 1) =>
              /\ Len(workers') = Len(workers) + 1
              /\ ~processWaiting'
              /\ eventsInFlight' = 0
        /\ StartStep =>
              /\ Len(workers') = Len(workers) + 1
              /\ EventStep \/ (CompletionStep /\ eventsInFlight >= 1)
        /\ (CompletionStep /\ eventsInFlight = 0) => ~StartStep ]_vars

(* Three events, one completion: the second and third event were handled
   during the first flight, and the completion just handled started the
   second invocation. *)
C2_Witness ==
    /\ IsCompletion(channelResult)
    /\ nEvents = 3
    /\ nCompletions = 1
    /\ NumStarted = 2
    /\ workers[2].pc = "args"

(* C3. Watermark monotonicity: no step lowers lastTimestamp. *)
C3_WatermarkMonotone == [][lastTimestamp' >= lastTimestamp]_vars

(* C4 as stated: every step that changes lastTimestamp handles a completion
   with errorCode 0 and sets it to that completion's spawnTime. *)
C4_OnlySuccessUpdates ==
    [][ lastTimestamp' # lastTimestamp =>
          /\ CompletionStep
          /\ HandledErrorCode = 0
          /\ lastTimestamp' = HandledSpawnTime ]_vars

(* C4, amended: every step that changes lastTimestamp either handles a
   completion with errorCode 0 and sets it to that completion's spawnTime, or
   handles a change event with a non-zero timestamp while lastTimestamp is 0
   and sets it to that timestamp. *)
C4_UpdatesOnSuccessOrBootstrap ==
    [][ lastTimestamp' # lastTimestamp =>
          \/ /\ CompletionStep
             /\ HandledErrorCode = 0
             /\ lastTimestamp' = HandledSpawnTime
          \/ /\ EventStep
             /\ HandledTimestamp # 0
             /\ lastTimestamp = 0
             /\ lastTimestamp' = HandledTimestamp ]_vars

(* A successful completion has just moved lastTimestamp from the non-zero
   value the worker was passed to the worker's spawn time. *)
C4_Witness ==
    /\ IsCompletion(channelResult)
    /\ channelResult.runProjectReturn[1].errorCode = 0
    /\ NumStarted >= 1
    /\ workers[NumStarted].pc = "done"
    /\ workers[NumStarted].timestamp # 0
    /\ workers[NumStarted].timestamp # workers[NumStarted].spawnTime
    /\ lastTimestamp = workers[NumStarted].spawnTime

(* C5. Bootstrap: a step that handles a change event with timestamp T # 0
   while lastTimestamp is 0 leaves lastTimestamp equal to T. *)
C5_Bootstrap ==
    [][ (EventStep /\ HandledTimestamp # 0 /\ lastTimestamp = 0) =>
          lastTimestamp' = HandledTimestamp ]_vars

(* The first invocation was passed 0 and is still in flight; a later event
   has seeded lastTimestamp. *)
C5_Witness ==
    /\ NumStarted = 1
    /\ workers[1].timestamp = 0
    /\ workers[1].pc # "done"
    /\ nCompletions = 0
    /\ ~IsCompletion(channelResult)
    /\ lastTimestamp # 0
    /\ lastTimestamp = channelResult.projectCreationTimeInAbsoluteMsecsParam

(* C6. No event loss: under fair scheduling, with every command ending,
   whenever a change event has been handled and is still queued
   (processWaiting), an invocation is later started. *)
C6_NoEventLoss ==
    \A n \in 0..MaxEvents :
        (processWaiting /\ NumStarted = n) ~> (NumStarted > n)

(* C7 as stated: a step handling a completion with errorCode # 0 leaves
   lastTimestamp unchanged, a change event handled with nothing in flight
   starts an invocation, and the invocation started next after a failed one
   is passed the timestamp the failed one was passed. *)
PrevFailed ==
    /\ NumStarted >= 1
    /\ PrevWorker.pc \in {"send", "done"}
    /\ PrevWorker.errorCode # 0

C7_RetrySameWatermark ==
    [][ /\ (CompletionStep /\ HandledErrorCode # 0) => lastTimestamp' = lastTimestamp
        /\ (EventStep /\ ~processActive) => StartStep
        /\ (StartStep /\ PrevFailed) =>
              StartedWorker.timestamp = PrevWorker.timestamp ]_vars

(* C7, amended: a step handling a completion with errorCode # 0 leaves
   lastTimestamp unchanged, a change event handled with nothing in flight
   starts an invocation, and the invocation started next after a failed one
   is passed the value of lastTimestamp, which is the timestamp the failed one
   was passed unless that was 0 (a change event with a non-zero timestamp
   handled since then has seeded it). *)
C7_RetryUnchangedWatermark ==
    [][ /\ (CompletionStep /\ HandledErrorCode # 0) => lastTimestamp' = lastTimestamp
        /\ (EventStep /\ ~processActive) => StartStep
        /\ (StartStep /\ PrevFailed) =>
              /\ StartedWorker.timestamp = lastTimestamp'
              /\ PrevWorker.timestamp # 0 =>
                    StartedWorker.timestamp = PrevWorker.timestamp ]_vars

(* A failed invocation that was passed a non-zero timestamp is followed by
   one started by a later change event and passed the same timestamp. *)
C7_Witness ==
    /\ NumStarted >= 2
    /\ workers[NumStarted - 1].pc = "done"
    /\ workers[NumStarted - 1].errorCode # 0
    /\ workers[NumStarted - 1].timestamp # 0
    /\ workers[NumStarted].timestamp = workers[NumStarted - 1].timestamp
    /\ workers[NumStarted].pc = "args"
    /\ ~IsCompletion(channelResult)

(* C8 as stated: NewCLIState called with an empty or blank installer path
   returns an error and starts no readChannel; only a non-blank path yields
   an actor. *)
C8_BlankInstallerPathRejected ==
    /\ (cliState # "none" /\ PathIsBlank(installerPath)) =>
          (cliState = "error" /\ ~readerStarted)
    /\ cliState = "actor" => ~PathIsBlank(installerPath)

(* C8, amended: NewCLIState called with an empty installer path returns an
   error and no CLIState, and no readChannel is started; any other path,
   a whitespace-only one included, yields an actor with readChannel started. *)
C8_EmptyInstallerPathRejected ==
    /\ (cliState # "none" /\ installerPath = <<>>) =>
          /\ cliState = "error"
          /\ ~readerStarted
          /\ nEvents = 0
          /\ workers = <<>>
          /\ \A p \in Producers : producers[p] = "idle"
    /\ (cliState # "none" /\ installerPath # <<>>) =>
          (cliState = "actor" /\ readerStarted)

(* Construction has failed. *)
C8_Witness ==
    /\ cliState = "error"
    /\ installerPath = <<>>

(* C9. Submission error: on a CLIState whose project path is empty or blank
   every OnFileChangeEvent call returns an error and none sends, so nothing
   is received, the actor's state is as constructed and no invocation is
   started. *)
C9_BlankProjectPathRejected ==
    (cliState = "actor" /\ PathIsBlank(projectPath)) =>
        /\ rejected = Submitted
        /\ \A p \in Producers : producers[p] = "idle"
        /\ nEvents = 0
        /\ lastTimestamp = 0
        /\ ~processActive
        /\ ~processWaiting
        /\ debugMostRecentPtw = NilPtw
        /\ workers = <<>>

(* Two calls on a CLIState with a whitespace-only project path have returned
   their error. *)
C9_Witness ==
    /\ cliState = "actor"
    /\ projectPath = <<" ">>
    /\ rejected >= 2

(* C10. Submit cannot deadlock: under fair scheduling every producer blocked
   in its send returns, and every worker blocked posting its completion is
   received. *)
C10_SendsAreReceived ==
    /\ \A p \in Producers : (producers[p] = "send") ~> (producers[p] = "idle")
    /\ \A i \in WorkerIds :
          (i <= Len(workers) /\ workers[i].pc = "send") ~>
          (i <= Len(workers) /\ workers[i].pc = "done")

(* C11. Invocation count is bounded by completion count: in every reachable
   state the number of invocations started is at most the number of
   completion entries handled plus one, however many change events were
   submitted. *)
C11_StartsBoundedByCompletions == NumStarted <= nCompletions + 1

(* All three events have been handled and one completion; two invocations
   have been started, not three. *)
C11_Witness ==
    /\ nEvents = 3
    /\ nCompletions = 1
    /\ NumStarted = 2

(* C12. The Invoker never throws past its boundary and produces one result
   per call: no worker ends the process, in either mode and with or without
   a snapshot, and the completions handled are those of the workers that have
   returned, one each. *)
C12_InvokerNeverThrows ==
    /\ ~crashed
    /\ Cardinality({i \in 1..Len(workers) : workers[i].pc = "done"}) = nCompletions

(* C13. Dispatch rule: a step that handles an entry starts an invocation if
   and only if, once the entry is applied, nothing is in flight and a change
   is queued; it then clears processWaiting, sets processActive and passes
   the worker the values lastTimestamp and debugMostRecentPtw have after the
   entry was applied; otherwise both flags stay as the entry left them. *)
C13_DispatchRule ==
    [][ (EventStep \/ CompletionStep) =>
          LET activeApplied == IF CompletionStep THEN FALSE ELSE processActive
              waitingApplied == IF EventStep THEN TRUE ELSE processWaiting
          IN  /\ StartStep <=> (~activeApplied /\ waitingApplied)
              /\ StartStep =>
                    /\ Len(workers') = Len(workers) + 1
                    /\ ~processWaiting'
                    /\ processActive'
                    /\ StartedWorker.pc = "args"
                    /\ StartedWorker.timestamp = lastTimestamp'
                    /\ StartedWorker.debugPtw = debugMostRecentPtw'
              /\ ~StartStep =>
                    /\ processWaiting' = waitingApplied
                    /\ processActive' = activeApplied ]_vars

(* A successful completion with an event queued has just started the second
   invocation, passed that completion's spawn time, which is not what the
   first was passed. *)
C13_Witness ==
    /\ IsCompletion(channelResult)
    /\ channelResult.runProjectReturn[1].errorCode = 0
    /\ NumStarted = 2
    /\ workers[2].pc = "args"
    /\ workers[2].timestamp = channelResult.runProjectReturn[1].spawnTime
    /\ workers[2].timestamp # workers[1].timestamp

(* C14. Failures are not retried by themselves: a step handling a completion
   with errorCode # 0 while no change is queued starts nothing and leaves the
   actor idle, and an invocation is started only by a step that handles a
   change event, or a completion with a change queued during the flight. *)
C14_NoAutomaticRetry ==
    [][ /\ (CompletionStep /\ HandledErrorCode # 0 /\ ~processWaiting) =>
              /\ ~StartStep
              /\ ~processActive'
              /\ ~processWaiting'
        /\ (StartStep /\ ~EventStep) =>
              /\ CompletionStep
              /\ processWaiting
              /\ eventsInFlight >= 1 ]_vars

(* The only invocation has failed, its completion has been handled, and
   nothing has been started since. *)
C14_Witness ==
    /\ IsCompletion(channelResult)
    /\ channelResult.runProjectReturn[1].errorCode # 0
    /\ NumStarted = 1
    /\ workers[1].pc = "done"
    /\ ~processActive
    /\ ~processWaiting

(* C15. A change event changes lastTimestamp only as a bootstrap: a step
   handling a change event whose timestamp is 0, or any change event while
   lastTimestamp # 0, leaves lastTimestamp unchanged. *)
C15_EventsLeaveWatermark ==
    [][ (EventStep /\ (HandledTimestamp = 0 \/ lastTimestamp # 0)) =>
          lastTimestamp' = lastTimestamp ]_vars

(* A change event with a non-zero timestamp other than lastTimestamp has
   been handled and lastTimestamp has kept its non-zero value. *)
C15_Witness ==
    /\ ~IsCompletion(channelResult)
    /\ nEvents >= 2
    /\ channelResult.projectCreationTimeInAbsoluteMsecsParam # 0
    /\ lastTimestamp # 0
    /\ lastTimestamp # channelResult.projectCreationTimeInAbsoluteMsecsParam

(* C16. Snapshot retention: debugMostRecentPtw changes only in a step that
   handles a change event carrying a snapshot, and becomes that snapshot; a
   change event without one and any completion leave it unchanged; and every
   invocation started is passed the value it then has. *)
C16_SnapshotRetention ==
    [][ /\ debugMostRecentPtw' # debugMostRecentPtw =>
              (EventStep /\ channelResult'.debugPtw # NilPtw)
        /\ (EventStep /\ channelResult'.debugPtw # NilPtw) =>
              debugMostRecentPtw' = channelResult'.debugPtw
        /\ StartStep => StartedWorker.debugPtw = debugMostRecentPtw' ]_vars

(* A change event without a snapshot has just started an invocation, which
   was passed the snapshot of an earlier event. *)
C16_Witness ==
    /\ ~IsCompletion(channelResult)
    /\ channelResult.debugPtw = NilPtw
    /\ nEvents >= 2
    /\ eventsInFlight = 0
    /\ workers[NumStarted].pc = "args"
    /\ workers[NumStarted].debugPtw # NilPtw
    /\ debugMostRecentPtw = workers[NumStarted].debugPtw

(* C17. The in-flight flag matches reality: between entries processActive is
   true exactly when one worker started by the actor has not yet been
   received, false exactly when there is none, and no completion is handled
   while processActive is false. *)
C17_ActiveMatchesWorkers ==
    /\ [](Cardinality(ActiveWorkers) = (IF processActive THEN 1 ELSE 0))
    /\ [][CompletionStep => processActive]_vars

(* The flag is set while the second worker is blocked posting its result. *)
C17_Witness ==
    /\ processActive
    /\ nCompletions >= 1
    /\ \E i \in ActiveWorkers : workers[i].pc = "send"

(* C18. Never idle with work pending: between entries processWaiting implies
   processActive. *)
C18_WaitingImpliesActive == processWaiting => processActive

(* Two change events are queued behind an invocation in flight. *)
C18_Witness ==
    /\ processWaiting
    /\ processActive
    /\ eventsInFlight >= 2

(* C19. No spurious invocations: the number of invocations started is at
   most the number of change events handled, none is started before the
   first change event, and every start follows a change event handled since
   the previous start. *)
C19_StartsBoundedByEvents ==
    /\ [](NumStarted <= nEvents)
    /\ [][StartStep => (EventStep \/ eventsInFlight >= 1)]_vars

(* Each of two change events has started its own invocation. *)
C19_Witness ==
    /\ nEvents = 2
    /\ NumStarted = 2
    /\ nCompletions >= 1

(* C20. Quiescence: when every invocation started posts its completion, then
   under fair scheduling the actor reaches and keeps the state with
   processActive and processWaiting false, with no change event handled
   since the last invocation was started. *)
Quiescent ==
    /\ ~processActive
    /\ ~processWaiting
    /\ eventsInFlight = 0

C20_Quiescence ==
    (\A i \in WorkerIds :
        (i <= Len(workers) /\ workers[i].pc # "done") ~>
        (i <= Len(workers) /\ workers[i].pc = "done"))
    => <>[]Quiescent

(* All three events have been handled, the last of them queued behind an
   invocation, and the actor has come to rest. *)
C20_Witness ==
    /\ Quiescent
    /\ nEvents = 3
    /\ NumStarted = 2
    /\ nCompletions = 2
    /\ \A p \in Producers : producers[p] = "idle"

====
